---------------------------- MODULE Spec2Model ----------------------------
(***************************************************************************)
(* easy-http-request: the request sender HttpRequest::send /               *)
(* send_preserved and the recursive engine send_request_inner              *)
(* (src/src/lib.rs), with the hyper client as the Transport environment.   *)
(*                                                                         *)
(* Strings that the code inspects character by character (query and form   *)
(* values, URL query components) are sequences of one-character strings;   *)
(* a HashMap is the sequence of its entries in iteration order.            *)
(***************************************************************************)
EXTENDS Integers, Sequences, FiniteSets, TLC

(***************************************************************************)
(* Bounds of the model.                                                    *)
(***************************************************************************)
\* attempts (transport sends) explored in one call
MaxAttempts == 6
\* milliseconds explored on an attempt's clock
MaxElapsed == 2
\* bytes a response stream is explored to
MaxStream == 2

(***************************************************************************)
(* Program constants.                                                      *)
(***************************************************************************)
BUFFER_SIZE == 512
DEFAULT_MAX_RESPONSE_BODY_SIZE == 1 * 1024 * 1024
DEFAULT_MAX_REDIRECT_COUNT == 5
DEFAULT_MAX_CONNECTION_TIME == 60000
DEFAULT_ALLOW_LOCAL == TRUE
DEFAULT_USER_AGENT == "Mozilla/5.0 (Rust; magiclen.org) EasyHyperRequest"

Min(a, b) == IF a < b THEN a ELSE b

(***************************************************************************)
(* HttpRequestMethod and HttpRequestOptions.                               *)
(***************************************************************************)
HttpRequestMethod == {"GET", "POST", "PUT", "DELETE", "HEAD"}

HttpRequestOptions_default ==
    [max_response_body_size |-> DEFAULT_MAX_RESPONSE_BODY_SIZE,
     max_redirect_count     |-> DEFAULT_MAX_REDIRECT_COUNT,
     max_connection_time    |-> DEFAULT_MAX_CONNECTION_TIME,
     allow_local            |-> DEFAULT_ALLOW_LOCAL]

(***************************************************************************)
(* Local-address policy.                                                   *)
(***************************************************************************)
\* is_local_ipv4 with the range 16..31 of the second octet taken as exclusive
is_local_ipv4_ExclusiveRange(octets) ==
    CASE octets[1] = 10 -> TRUE
      [] octets[1] = 172 /\ octets[2] \in 16..30 -> TRUE
      [] octets[1] = 192 /\ octets[2] = 168 -> TRUE
      [] octets[1] = 127 -> TRUE
      [] octets[1] = 169 /\ octets[2] = 254 -> TRUE
      [] octets = <<255, 255, 255, 255>> -> TRUE
      [] octets[1] = 192 /\ octets[2] = 0 /\ octets[3] = 2 -> TRUE
      [] octets[1] = 198 /\ octets[2] = 51 /\ octets[3] = 100 -> TRUE
      [] octets[1] = 203 /\ octets[2] = 0 /\ octets[3] = 113 -> TRUE
      [] octets = <<0, 0, 0, 0>> -> TRUE
      [] OTHER -> FALSE

is_local_ipv4(octets) ==
    CASE octets[1] = 10 -> TRUE
      [] octets[1] = 172 /\ octets[2] \in 16..31 -> TRUE
      [] octets[1] = 192 /\ octets[2] = 168 -> TRUE
      [] octets[1] = 127 -> TRUE
      [] octets[1] = 169 /\ octets[2] = 254 -> TRUE
      [] octets = <<255, 255, 255, 255>> -> TRUE
      [] octets[1] = 192 /\ octets[2] = 0 /\ octets[3] = 2 -> TRUE
      [] octets[1] = 198 /\ octets[2] = 51 /\ octets[3] = 100 -> TRUE
      [] octets[1] = 203 /\ octets[2] = 0 /\ octets[3] = 113 -> TRUE
      [] octets = <<0, 0, 0, 0>> -> TRUE
      [] OTHER -> FALSE

\* x & mask for a mask whose set bits are the bits lo .. 15 (lo a power of 2)
AndHigh(x, lo) == (x \div lo) * lo
\* x & mask for a mask whose set bits are the bits below hi (hi a power of 2)
AndLow(x, hi) == x % hi

\* is_local_ipv6 without its is_unicast_site_local arm
is_local_ipv6_NoSiteLocal(segments) ==
    LET is_multicast == AndHigh(segments[1], 256) = 65280
    IN  IF is_multicast
        THEN AndLow(segments[1], 16) # 14
        ELSE CASE segments = <<0, 0, 0, 0, 0, 0, 0, 1>> -> TRUE
               [] segments = <<0, 0, 0, 0, 0, 0, 0, 0>> -> TRUE
               [] OTHER ->
                    CASE AndHigh(segments[1], 64) = 65152 -> TRUE
                      [] OTHER ->
                           IF AndHigh(segments[1], 512) = 64512
                           THEN TRUE
                           ELSE segments[1] = 8193 /\ segments[2] = 3512

is_local_ipv6(segments) ==
    LET is_multicast == AndHigh(segments[1], 256) = 65280
    IN  IF is_multicast
        THEN AndLow(segments[1], 16) # 14
        ELSE CASE segments = <<0, 0, 0, 0, 0, 0, 0, 1>> -> TRUE
               [] segments = <<0, 0, 0, 0, 0, 0, 0, 0>> -> TRUE
               [] OTHER ->
                    CASE AndHigh(segments[1], 64) = 65152 -> TRUE
                      [] AndHigh(segments[1], 64) = 65216 -> TRUE
                      [] OTHER ->
                           IF AndHigh(segments[1], 512) = 64512
                           THEN TRUE
                           ELSE segments[1] = 8193 /\ segments[2] = 3512

(***************************************************************************)
(* Option<T>: None is the empty sequence, Some(x) the sequence <<x>>.       *)
(***************************************************************************)
Some(x) == <<x>>
NoneOpt == <<>>
IsSome(o) == o # <<>>
Unwrap(o) == o[1]

RECURSIVE Concat(_)
\* the concatenation of a sequence of sequences
Concat(ss) == IF ss = <<>> THEN <<>> ELSE Head(ss) \o Concat(Tail(ss))

(***************************************************************************)
(* url::Url and url::Host, as far as the engine reads and writes them.     *)
(***************************************************************************)
HostIpv4(octets) == [kind |-> "Ipv4", addr |-> octets, name |-> ""]
HostIpv6(segments) == [kind |-> "Ipv6", addr |-> segments, name |-> ""]
HostDomain(domain) == [kind |-> "Domain", addr |-> <<>>, name |-> domain]
HostNone == [kind |-> "None", addr |-> <<>>, name |-> ""]

Url(scheme, username, host, port, path, query) ==
    [scheme |-> scheme, username |-> username, host |-> host, port |-> port,
     path |-> path, query |-> query, cannot_be_a_base |-> FALSE]

\* a URL such as mailto:x, which has no authority and no hierarchical path
UrlCannotBeABase(scheme, path) ==
    [scheme |-> scheme, username |-> "", host |-> HostNone, port |-> NoneOpt,
     path |-> path, query |-> NoneOpt, cannot_be_a_base |-> TRUE]

(***************************************************************************)
(* application/x-www-form-urlencoded serialisation, as done by             *)
(* url.query_pairs_mut().append_pair (form_urlencoded::byte_serialize).    *)
(***************************************************************************)
Unreserved == {"a", "b", "k", "v", "x", "y", "0", "1", "2", "*", "-", ".", "_"}

byte_serialize_char(c) ==
    CASE c \in Unreserved -> <<c>>
      [] c = " " -> <<"+">>
      [] c = "&" -> <<"%", "2", "6">>
      [] c = "=" -> <<"%", "3", "D">>
      [] c = "+" -> <<"%", "2", "B">>
      [] c = "/" -> <<"%", "2", "F">>

byte_serialize(str) == Concat([i \in 1..Len(str) |-> byte_serialize_char(str[i])])

\* Serializer::append_pair on the query string q
append_pair(q, k, v) ==
    (IF q = <<>> THEN <<>> ELSE q \o <<"&">>)
        \o byte_serialize(k) \o <<"=">> \o byte_serialize(v)

RECURSIVE append_pairs(_, _)
\* for (k, v) in map { query.append_pair(k, v) }
append_pairs(q, map) ==
    IF map = <<>> THEN q
    ELSE append_pairs(append_pair(q, Head(map)[1], Head(map)[2]), Tail(map))

\* AppendQuery putting the pairs in the place of the query of the URL
AppendQuery_Replace(url, query) ==
    IF IsSome(query)
    THEN [url EXCEPT !.query = Some(append_pairs(<<>>, Unwrap(query)))]
    ELSE url

\* lib.rs 233-239: url.query_pairs_mut() makes the query Some("") when it is
\* None, then every pair of the map is appended
AppendQuery(url, query) ==
    IF IsSome(query)
    THEN [url EXCEPT !.query =
            Some(append_pairs(IF IsSome(url.query) THEN Unwrap(url.query) ELSE <<>>,
                              Unwrap(query)))]
    ELSE url

(***************************************************************************)
(* hyper::header::Headers: a map from the case-insensitive header name     *)
(* (kept here in lower case) to the list of its raw values.                *)
(***************************************************************************)
to_lowercase(name) ==
    CASE name \in {"User-Agent", "USER-AGENT", "user-agent"} -> "user-agent"
      [] name \in {"Location", "LOCATION", "location"} -> "location"
      [] name \in {"Accept", "accept"} -> "accept"
      [] name \in {"X-Attempt", "x-attempt"} -> "x-attempt"
      [] name \in {"Content-Type", "content-type"} -> "content-type"
      [] name \in {"Content-Length", "content-length"} -> "content-length"

eq_ignore_ascii_case(a, b) == to_lowercase(a) = to_lowercase(b)

\* the bytes of a string the code never looks into
as_bytes(str) == <<str>>

RECURSIVE Decimal(_)
\* usize::to_string
Decimal(n) ==
    LET digit(d) == CASE d = 0 -> "0" [] d = 1 -> "1" [] d = 2 -> "2" [] d = 3 -> "3"
                      [] d = 4 -> "4" [] d = 5 -> "5" [] d = 6 -> "6" [] d = 7 -> "7"
                      [] d = 8 -> "8" [] d = 9 -> "9"
    IN  IF n < 10 THEN <<digit(n)>> ELSE Decimal(n \div 10) \o <<digit(n % 10)>>

Headers_new == [n \in {} |-> <<>>]

append_raw(h, name, value) ==
    LET n == to_lowercase(name)
    IN  [x \in DOMAIN h \cup {n} |->
            IF x = n THEN (IF n \in DOMAIN h THEN Append(h[n], value) ELSE <<value>>)
            ELSE h[x]]

set_raw(h, name, values) ==
    LET n == to_lowercase(name)
    IN  [x \in DOMAIN h \cup {n} |-> IF x = n THEN values ELSE h[x]]

RECURSIVE append_user_headers(_, _)
\* lib.rs 265-274: every user header is appended
append_user_headers(h, map) ==
    IF map = <<>> THEN h
    ELSE append_user_headers(append_raw(h, Head(map)[1], Head(map)[2]), Tail(map))

\* has_user_agent comparing the header name as it is written
has_user_agent_CaseSensitive(headers) ==
    IF IsSome(headers)
    THEN \E i \in 1..Len(Unwrap(headers)) : Unwrap(headers)[i][1] = "User-Agent"
    ELSE FALSE

\* lib.rs 261-279
has_user_agent(headers) ==
    IF IsSome(headers)
    THEN \E i \in 1..Len(Unwrap(headers)) :
            eq_ignore_ascii_case(Unwrap(headers)[i][1], "User-Agent")
    ELSE FALSE

\* lib.rs 258-284
UserHeaders(headers) ==
    LET h == IF IsSome(headers) THEN append_user_headers(Headers_new, Unwrap(headers))
             ELSE Headers_new
    IN  IF ~has_user_agent(headers)
        THEN append_raw(h, "User-Agent", as_bytes(DEFAULT_USER_AGENT))
        ELSE h

(***************************************************************************)
(* HttpRequestBody and the body part of the wire request (lib.rs 286-348). *)
(***************************************************************************)
BodyBinary(content_type, bytes) ==
    [type |-> "Binary", content_type |-> content_type, body |-> bytes, map |-> <<>>]
BodyText(content_type, text) ==
    [type |-> "Text", content_type |-> content_type, body |-> text, map |-> <<>>]
BodyFormURLEncoded(map) ==
    [type |-> "FormURLEncoded", content_type |-> "", body |-> <<>>, map |-> map]

\* the bytes handed to the Transport as Body::BufBody
WireBody(body) ==
    IF ~IsSome(body) THEN NoneOpt
    ELSE LET b == Unwrap(body)
         IN  IF b.type = "FormURLEncoded"
             THEN Some(append_pairs(<<>>, b.map))
             ELSE Some(b.body)

BodyHeaders(h, body) ==
    IF ~IsSome(body) THEN h
    ELSE LET b == Unwrap(body)
             content_type == IF b.type = "FormURLEncoded"
                             THEN as_bytes("x-www-form-urlencoded")
                             ELSE as_bytes(b.content_type)
             body_size == Len(Unwrap(WireBody(body)))
         IN  set_raw(set_raw(h, "Content-Type", <<content_type>>),
                     "Content-Length", <<Decimal(body_size)>>)

\* the request handed to request.send() (lib.rs 233-350)
BuildWire(method, url, query, body, headers) ==
    [method  |-> method,
     url     |-> AppendQuery(url, query),
     headers |-> BodyHeaders(UserHeaders(headers), body),
     body    |-> WireBody(body)]

(***************************************************************************)
(* The value of a Location header and its resolution (lib.rs 376-438).     *)
(* A Location value is "absolute" (Url::parse accepts it), "relative"      *)
(* (Url::parse rejects it, the value joined to the current origin parses)  *)
(* or "invalid" (neither parses).                                          *)
(***************************************************************************)
LocationAbsolute(u) == [kind |-> "absolute", url |-> Some(u), path |-> "", query |-> NoneOpt]
LocationRelative(path, query) ==
    [kind |-> "relative", url |-> NoneOpt, path |-> path, query |-> query]
LocationInvalid == [kind |-> "invalid", url |-> NoneOpt, path |-> "", query |-> NoneOpt]

\* Url::parse(location)
Url_parse(location) == location.url

\* lib.rs 380-393: a parsed Location without a host takes the username, host
\* and port of the current URL; each setter is unwrapped.  Url::set_username
\* fails on a URL that has no host, Url::set_host on one that cannot be a base.
InheritAuthority(url, location_url) ==
    IF url.host # HostNone /\ location_url.host = HostNone
    THEN IF url.username # "" \/ location_url.cannot_be_a_base
         THEN [outcome |-> "Panic", url |-> location_url]
         ELSE [outcome |-> "Ok",
               url |-> [location_url EXCEPT
                          !.host = url.host,
                          !.port = IF IsSome(url.port) THEN url.port ELSE @]]
    ELSE [outcome |-> "Ok", url |-> location_url]

\* lib.rs 397-430: scheme://[username@]host[:port] joined to the Location
\* value with exactly one slash, then parsed
JoinLocation(url, location) ==
    IF location.kind = "relative"
    THEN [outcome |-> "Ok",
          url |-> Url(url.scheme, url.username, url.host, url.port,
                      location.path, location.query)]
    ELSE [outcome |-> "RedirectError", url |-> url]

ResolveLocation(url, location) ==
    IF IsSome(Url_parse(location))
    THEN InheritAuthority(url, Unwrap(Url_parse(location)))
    ELSE JoinLocation(url, location)

(***************************************************************************)
(* The time-out test (lib.rs 356-365 and 498-505): millis is a u128, the   *)
(* limit a u64.                                                            *)
(***************************************************************************)
U64Bits == 4
u64_max == 2 ^ U64Bits - 1

\* the largest elapsed.as_millis(), a u128
u128_max == 2 ^ (2 * U64Bits) - 1

\* TimedOut without the test against u64_max: the elapsed time is cut to 64 bits
TimedOut_Truncated(millis, max_connection_time) ==
    max_connection_time > 0 /\ millis % (u64_max + 1) > max_connection_time

\* TimedOut with only its first test
TimedOut_OverflowOnly(millis, max_connection_time) ==
    max_connection_time > 0 /\ millis > u64_max

TimedOut(millis, max_connection_time) ==
    max_connection_time > 0
    /\ (millis > u64_max \/ millis % (u64_max + 1) > max_connection_time)

(***************************************************************************)
(* Inputs: the requests a caller builds and the answers of a server.       *)
(***************************************************************************)
Ipv4Loopback == <<127, 0, 0, 1>>
Ipv6Loopback == <<0, 0, 0, 0, 0, 0, 0, 1>>

RequestUrls ==
    { Url("http", "u", HostDomain("example.com"), Some(8080), "/", NoneOpt),
      Url("http", "", HostIpv6(Ipv6Loopback), NoneOpt, "/", Some(<<"a", "=", "1">>)),
      UrlCannotBeABase("mailto", "x") }

\* (method, query, body, headers) of a request
RequestShapes ==
    { <<"GET", NoneOpt, NoneOpt, NoneOpt>>,
      <<"HEAD", NoneOpt, NoneOpt, Some(<< <<"Accept", as_bytes("any")>> >>)>>,
      <<"DELETE", NoneOpt, Some(BodyBinary("application/octet-stream", <<"0", "1">>)),
        Some(<< <<"content-type", as_bytes("text/html")>> >>)>>,
      <<"POST",
        Some(<< <<(<<"k">>), (<<"x", " ", "y">>)>> >>),
        Some(BodyText("text/plain", <<"x", "y">>)),
        Some(<< <<"user-agent", as_bytes("custom")>> >>)>>,
      <<"PUT",
        NoneOpt,
        Some(BodyFormURLEncoded(<< <<(<<"a">>), (<<"1">>)>>, <<(<<"b">>), (<<"x", " ", "y">>)>> >>)),
        Some(<< <<"Accept", as_bytes("any")>> >>)>> }

OptionsSet ==
    {HttpRequestOptions_default}
    \cup [max_response_body_size : {1},
          max_redirect_count     : {0, 1},
          max_connection_time    : {0, 1},
          allow_local            : BOOLEAN]

Requests ==
    { [method |-> p[1], url |-> u, query |-> p[2], body |-> p[3], headers |-> p[4],
       options |-> o] :
        u \in RequestUrls, p \in RequestShapes, o \in OptionsSet }

StatusCodes == {200, 301, 302, 303, 304, 307, 308}

Locations ==
    { LocationAbsolute(Url("http", "", HostDomain("localhost"), NoneOpt, "/", NoneOpt)),
      LocationAbsolute(Url("http", "", HostIpv4(Ipv4Loopback), NoneOpt, "/p",
                           Some(<<"k", "=", "x", "+", "y">>))),
      LocationAbsolute(Url("foo", "", HostNone, NoneOpt, "/p", NoneOpt)),
      LocationAbsolute(UrlCannotBeABase("mailto", "x")),
      LocationRelative("/p", NoneOpt),
      LocationInvalid }

\* the header lists a server may send with the answer to the n-th send of a
\* call: a header that identifies the answer and, on a 3xx answer, possibly a
\* Location header, whose name may come in any letter case
ResponseHeaders(status, n) ==
    { << <<"X-Attempt", n>> >> }
    \cup IF status \div 100 = 3
         THEN { << <<"Location", l>>, <<"X-Attempt", n>> >> : l \in Locations }
              \cup { << <<"LOCATION", LocationRelative("/p", NoneOpt)>>, <<"X-Attempt", n>> >> }
         ELSE {}

RECURSIVE headers_to_raw_map_KeepCase(_, _)
\* headers_to_raw_map keeping the header names as they arrive
headers_to_raw_map_KeepCase(map, hs) ==
    IF hs = <<>> THEN map
    ELSE LET name == Head(hs)[1]
         IN  headers_to_raw_map_KeepCase(
                [x \in DOMAIN map \cup {name} |->
                    IF x = name THEN <<Head(hs)[2]>> ELSE map[x]],
                Tail(hs))

RECURSIVE headers_to_raw_map(_, _)
\* lib.rs 369-373
headers_to_raw_map(map, hs) ==
    IF hs = <<>> THEN map
    ELSE LET name == to_lowercase(Head(hs)[1])
         IN  headers_to_raw_map(
                [x \in DOMAIN map \cup {name} |->
                    IF x = name THEN <<Head(hs)[2]>> ELSE map[x]],
                Tail(hs))

(***************************************************************************)
(* State.                                                                  *)
(***************************************************************************)
VARIABLES
    request,              \* the caller's HttpRequest: Some(r), or None once moved
    kind,                 \* the operation of the current (or last) call
    pc,                   \* where the call stands: "idle" (not in a call),
                          \* "awaiting" (in request.send()), "reading" (in
                          \* response.read())
    method, url, query, body, headers, options, redirection_counter,
                          \* the arguments of the current send_request_inner
    wire,                 \* the request last handed to the Transport by this call
    sends,                \* how often this call asked the Transport to send
    elapsed,              \* the time since start_time of the current attempt, in ms
    status_code, headers_raw_map, sum_size, response_body,
                          \* locals of send_request_inner (response_body is
                          \* the local `body` of the read loop)
    result,               \* what the call returned
    addr,                 \* a host handed to the local-address policy directly
    is_local,             \* None, or Some(what the policy answered for addr)
    elapsed_millis,       \* an elapsed time (u128) handed to the time-out test directly
    time_limit,           \* the max_connection_time (u64) of that test
    timed_out             \* None, or Some(what the test answered)

\* the state of the local-address policy applied on its own
policy == <<addr, is_local>>
\* the state of the time-out test applied on its own
timing == <<elapsed_millis, time_limit, timed_out>>
\* the functions applied on their own
apart == <<policy, timing>>

vars == <<request, kind, pc, method, url, query, body, headers, options,
          redirection_counter, wire, sends, elapsed, status_code,
          headers_raw_map, sum_size, response_body, result, apart>>

args == <<method, url, query, body, headers, options, redirection_counter>>
locals == <<status_code, headers_raw_map, sum_size, response_body>>

Pending == [kind |-> "Pending", error |-> "", text |-> "", response |-> NoneOpt]
ErrText(e, text) == [kind |-> "Err", error |-> e, text |-> text, response |-> NoneOpt]
Err(e) == ErrText(e, "")
Panic == [kind |-> "Panic", error |-> "", text |-> "unwrap", response |-> NoneOpt]
Ok(response) == [kind |-> "Ok", error |-> "", text |-> "", response |-> Some(response)]

HttpResponse(status, hs, bytes) == [status_code |-> status, headers |-> hs, body |-> bytes]

\* no call has been made
Idle ==
    /\ kind = "none"
    /\ pc = "idle"
    /\ method = "GET"
    /\ url = UrlCannotBeABase("", "")
    /\ query = NoneOpt
    /\ body = NoneOpt
    /\ headers = NoneOpt
    /\ options = HttpRequestOptions_default
    /\ redirection_counter = 0
    /\ wire = NoneOpt
    /\ sends = 0
    /\ elapsed = 0
    /\ status_code = 0
    /\ headers_raw_map = Headers_new
    /\ sum_size = 0
    /\ response_body = <<>>
    /\ result = Pending

Init ==
    /\ request \in {Some(r) : r \in Requests}
    /\ Idle
    /\ addr = HostNone
    /\ is_local = NoneOpt
    /\ elapsed_millis = 0
    /\ time_limit = 0
    /\ timed_out = NoneOpt

Return(r) ==
    /\ pc' = "idle"
    /\ result' = r

(***************************************************************************)
(* send_request_inner, from its entry to the call of request.send()        *)
(* (lib.rs 199-354).  w and n are the wire request and the number of sends *)
(* of the call so far, t the time on the clock of the calling frame.       *)
(***************************************************************************)
\* HostNotAllowed without its Host::Domain arm
HostNotAllowed_NoDomainArm(host, opts) ==
    /\ ~opts.allow_local
    /\ CASE host.kind = "Ipv4" -> is_local_ipv4(host.addr)
         [] host.kind = "Ipv6" -> is_local_ipv6(host.addr)
         [] OTHER -> FALSE

\* lib.rs 210-228
HostNotAllowed(host, opts) ==
    /\ ~opts.allow_local
    /\ CASE host.kind = "Ipv4" -> is_local_ipv4(host.addr)
         [] host.kind = "Ipv6" -> is_local_ipv6(host.addr)
         [] host.kind = "Domain" -> host.name = "localhost"
         [] OTHER -> FALSE

\* has_host answering true for every URL
has_host_Always(u) == TRUE

\* lib.rs 208 and 230: url.host() is Some
has_host(u) == u.host # HostNone

\* start_time taken once for the whole call
start_time_OfCall(t) == t

\* lib.rs 352: start_time = Instant::now(), taken t ms after the start_time of
\* the frame that makes the call; the value is what start_time.elapsed()
\* reads right after
start_time(t) == 0

send_request_inner(m, u, q, b, h, o, counter, w, n, t) ==
    /\ method' = m
    /\ query' = q
    /\ body' = b
    /\ headers' = h
    /\ options' = o
    /\ redirection_counter' = counter
    /\ elapsed' = start_time(t)
    /\ IF ~has_host(u)
       THEN /\ Return(ErrText("Other", "A valid HTTP URL needs contains a host."))
            /\ url' = u
            /\ wire' = w
            /\ sends' = n
       ELSE IF HostNotAllowed(u.host, o)
       THEN /\ Return(Err("LocalNotAllow"))
            /\ url' = u
            /\ wire' = w
            /\ sends' = n
       ELSE /\ url' = AppendQuery(u, q)
            /\ wire' = Some(BuildWire(m, u, q, b, h))
            /\ sends' = n + 1
            /\ pc' = "awaiting"
            /\ result' = Pending

(***************************************************************************)
(* send and send_preserved (lib.rs 171-196): both enter                    *)
(* send_request_inner with the fields of the request and                   *)
(* options.max_redirect_count as the redirection counter.                  *)
(***************************************************************************)
\* the caller's object after send(self): moved into the call
AfterSend(req) == NoneOpt

\* send_preserved appending the query to self.url instead of to a clone
AfterSendPreserved_NoClone(req) == Some([req EXCEPT !.url = AppendQuery(req.url, req.query)])

\* the caller's object after send_preserved(&self): borrowed, url cloned
AfterSendPreserved(req) == Some(req)

Enter(req) ==
    /\ send_request_inner(req.method, req.url, req.query, req.body, req.headers,
                          req.options, req.options.max_redirect_count, NoneOpt, 0, 0)
    /\ status_code' = 0
    /\ headers_raw_map' = Headers_new
    /\ sum_size' = 0
    /\ response_body' = <<>>

send ==
    /\ pc = "idle"
    /\ IsSome(request)
    /\ kind' = "send"
    /\ Enter(Unwrap(request))
    /\ request' = AfterSend(Unwrap(request))
    /\ UNCHANGED apart

send_preserved ==
    /\ pc = "idle"
    /\ IsSome(request)
    /\ kind' = "send_preserved"
    /\ Enter(Unwrap(request))
    /\ request' = AfterSendPreserved(Unwrap(request))
    /\ UNCHANGED apart

(***************************************************************************)
(* send_request_inner, from the return of request.send() to the recursive  *)
(* call or to the read loop (lib.rs 354-481).                              *)
(***************************************************************************)
\* the clock is read only when max_connection_time > 0 (lib.rs 358, 498)
Durations(opts, from) ==
    IF opts.max_connection_time > 0 THEN 0..(MaxElapsed - from) ELSE {0}

\* FollowsRedirect without the test of the redirection counter
FollowsRedirect_NoCounter(counter, status) == status \div 100 = 3

\* lib.rs 375
FollowsRedirect(counter, status) == counter > 0 /\ status \div 100 = 3

\* SupportedRedirect without 308
SupportedRedirect_No308(status) == status \in {303, 301, 302, 307}

\* lib.rs 440-457: the statuses that are followed
SupportedRedirect(status) == status \in {303, 301, 302, 307, 308}

\* RedirectMethod keeping the method on a 303
RedirectMethod_Keep(status, m) == m

\* RedirectMethod turning 301 and 302 into GET as well, as browsers do
RedirectMethod_Browser(status, m) == IF status \in {301, 302, 303} THEN "GET" ELSE m

\* lib.rs 447-455 and 463-471: the method, body and redirection counter
\* passed to the recursive call
RedirectMethod(status, m) == IF status = 303 THEN "GET" ELSE m

\* RedirectBody keeping the body on a 303
RedirectBody_Keep(status, b) == b

RedirectBody(status, b) == IF status = 303 THEN NoneOpt ELSE b
RedirectCounter(counter) == counter

\* Fail leaving the error behind and going on
Fail_GoOn(r) ==
    /\ result' = r
    /\ headers_raw_map' = Headers_new
    /\ response_body' = <<>>
    /\ UNCHANGED pc

\* an error return: the frame is left, its response headers and the bytes read
\* so far are dropped
Fail(r) ==
    /\ Return(r)
    /\ headers_raw_map' = Headers_new
    /\ response_body' = <<>>

\* request.send() returns Err
TransportError ==
    /\ pc = "awaiting"
    /\ Fail(Err("HyperError"))
    /\ UNCHANGED <<request, kind, args, wire, sends, elapsed, status_code, sum_size, apart>>

\* request.send() returns a response with status and headers after d ms and
\* the response is not a redirect to follow
Receive ==
    /\ pc = "awaiting"
    /\ \E d \in Durations(options, 0), status \in StatusCodes :
       \E hs \in ResponseHeaders(status, sends) :
        /\ elapsed' = d
        /\ IF TimedOut(d, options.max_connection_time)
           THEN /\ Fail(Err("TimeOut"))
                /\ UNCHANGED <<status_code, sum_size>>
           ELSE /\ ~FollowsRedirect(redirection_counter, status)
                /\ status_code' = status
                /\ headers_raw_map' = headers_to_raw_map(Headers_new, hs)
                /\ sum_size' = 0
                /\ response_body' = <<>>
                /\ pc' = "reading"
                /\ UNCHANGED result
    /\ UNCHANGED <<request, kind, args, wire, sends, apart>>

\* request.send() returns, in time, a response that is a redirect to follow:
\* the Location is resolved and send_request_inner calls itself, up to the
\* next request.send()
Redirect ==
    /\ pc = "awaiting"
    /\ sends < MaxAttempts
    /\ \E d \in Durations(options, 0), status \in StatusCodes :
       \E hs \in ResponseHeaders(status, sends) :
        LET map == headers_to_raw_map(Headers_new, hs)
            \* a return from the frame that holds the headers of the answer
            Stop(r) ==
                /\ Return(r)
                /\ headers_raw_map' = map
                /\ response_body' = <<>>
                /\ elapsed' = d
                /\ UNCHANGED <<args, wire, sends>>
            RedirectError(text) == Stop(ErrText("RedirectError", text))
        IN  /\ ~TimedOut(d, options.max_connection_time)
            /\ FollowsRedirect(redirection_counter, status)
            /\ status_code' = status
            /\ UNCHANGED sum_size
            /\ IF "location" \notin DOMAIN map
               THEN RedirectError("Cannot get the location field in headers.")
               ELSE LET r == ResolveLocation(url, map["location"][1])
                    IN  IF r.outcome = "Panic"
                        THEN Stop(Panic)
                        ELSE IF r.outcome = "RedirectError"
                        THEN RedirectError("Cannot parse the location field in headers.")
                        ELSE IF ~SupportedRedirect(status)
                        THEN RedirectError("Unsupported redirection status.")
                        ELSE \* drop(headers_raw_map) and the recursive call
                             /\ headers_raw_map' = Headers_new
                             /\ response_body' = <<>>
                             /\ send_request_inner(
                                    RedirectMethod(status, method), r.url, query,
                                    RedirectBody(status, body), headers, options,
                                    RedirectCounter(redirection_counter), wire, sends, d)
    /\ UNCHANGED <<request, kind, apart>>

(***************************************************************************)
(* The read loop (lib.rs 479-512).                                         *)
(***************************************************************************)
\* the longest a single read can block: the read timeout set at lib.rs
\* 246-251 makes the Transport fail a read that blocks longer
ReadTimeout(opts) ==
    IF opts.max_connection_time > 0
    THEN Min(opts.max_connection_time, MaxElapsed)
    ELSE MaxElapsed

\* c bytes of the response stream of the n-th send
Chunk(n, c) == [i \in 1..c |-> n]

\* ExceedsLimit off by one
ExceedsLimit_OffByOne(size, opts) == size > opts.max_response_body_size + 1

\* ExceedsLimit testing against the default limit instead of the configured one
ExceedsLimit_DefaultLimit(size, opts) == size > DEFAULT_MAX_RESPONSE_BODY_SIZE

\* lib.rs 492
ExceedsLimit(size, opts) == size > opts.max_response_body_size

\* response.read(&mut buffer) returns Err
ReadError ==
    /\ pc = "reading"
    /\ Fail(Err("IOError"))
    /\ UNCHANGED <<request, kind, args, wire, sends, elapsed, status_code, sum_size, apart>>

\* response.read(&mut buffer) returns Ok(c) after d ms
Read ==
    /\ pc = "reading"
    /\ \E d \in Durations(options, elapsed), c \in 0..Min(BUFFER_SIZE, MaxStream - sum_size) :
        /\ d <= ReadTimeout(options)
        /\ elapsed' = elapsed + d
        /\ IF c = 0
           THEN /\ Return(Ok(HttpResponse(status_code, headers_raw_map, response_body)))
                /\ UNCHANGED <<sum_size, response_body, headers_raw_map>>
           ELSE /\ sum_size' = sum_size + c
                /\ IF ExceedsLimit(sum_size', options)
                   THEN Fail(Err("TooLarge"))
                   ELSE IF TimedOut(elapsed', options.max_connection_time)
                   THEN Fail(Err("TimeOut"))
                   ELSE /\ response_body' = response_body \o Chunk(sends, c)
                        /\ UNCHANGED <<pc, result, headers_raw_map>>
    /\ UNCHANGED <<request, kind, args, wire, sends, status_code, apart>>

Next ==
    \/ send
    \/ send_preserved
    \/ TransportError
    \/ Receive
    \/ Redirect
    \/ ReadError
    \/ Read

Spec == Init /\ [][Next]_vars

(***************************************************************************)
(* The local-address policy on its own: is_local_ipv4 and is_local_ipv6    *)
(* (lib.rs 516-571) applied to an address, as the match at lib.rs 210-228  *)
(* applies them to the host of a URL.                                      *)
(***************************************************************************)
call == <<request, kind, pc, args, wire, sends, elapsed, locals, result>>

\* the octets around the edges of the ranges is_local_ipv4 names
FirstOctets == {0, 8, 9, 10, 11, 126, 127, 128, 169, 172, 192, 198, 203, 255}
SecondOctets == {0, 8, 15, 16, 31, 32, 51, 168, 254, 255}
ThirdOctets == {0, 2, 8, 100, 113, 255}
FourthOctets == {0, 8, 255}

Ipv4Addrs ==
    { <<a, b, c, d>> : a \in FirstOctets, b \in SecondOctets, c \in ThirdOctets,
                       d \in FourthOctets }

\* the first segments around the edges of the prefixes is_local_ipv6 names:
\* 0, 1, 2001, 2002, fbff, fc00, fdff, fe00, fe7f, fe80, febf, fec0, feff,
\* ff00, ff01, ff0e, ff0f, ff1e, ffff
FirstSegments ==
    {0, 1, 8193, 8194, 64511, 64512, 65023, 65024, 65151, 65152, 65215, 65216,
     65279, 65280, 65281, 65294, 65295, 65310, 65535}
\* 0, db7, db8, db9
SecondSegments == {0, 3511, 3512, 3513}

Ipv6Addrs ==
    { <<a, b, 0, 0, 0, 0, g, h>> : a \in FirstSegments, b \in SecondSegments,
                                   g \in {0, 1}, h \in {0, 1, 2} }

InitPolicy ==
    /\ request = NoneOpt
    /\ Idle
    /\ addr \in {HostIpv4(o) : o \in Ipv4Addrs} \cup {HostIpv6(s) : s \in Ipv6Addrs}
    /\ is_local = NoneOpt
    /\ elapsed_millis = 0
    /\ time_limit = 0
    /\ timed_out = NoneOpt

\* Host::Ipv4(ipv4) => is_local_ipv4(ipv4)
LocalIpv4 ==
    /\ addr.kind = "Ipv4"
    /\ is_local = NoneOpt
    /\ is_local' = Some(is_local_ipv4(addr.addr))
    /\ UNCHANGED <<addr, call, timing>>

\* Host::Ipv6(ipv6) => is_local_ipv6(&ipv6)
LocalIpv6 ==
    /\ addr.kind = "Ipv6"
    /\ is_local = NoneOpt
    /\ is_local' = Some(is_local_ipv6(addr.addr))
    /\ UNCHANGED <<addr, call, timing>>

NextPolicy ==
    \/ LocalIpv4
    \/ LocalIpv6

SpecPolicy == InitPolicy /\ [][NextPolicy]_vars

(***************************************************************************)
(* The time-out test on its own (lib.rs 356-365 and 498-505), on every     *)
(* elapsed time of the width of a u128 and every limit of the width of a   *)
(* u64.                                                                    *)
(***************************************************************************)
InitTime ==
    /\ request = NoneOpt
    /\ Idle
    /\ addr = HostNone
    /\ is_local = NoneOpt
    /\ elapsed_millis \in 0..u128_max
    /\ time_limit \in 0..u64_max
    /\ timed_out = NoneOpt

\* the test after the headers arrived (lib.rs 358-365)
TestAfterHeaders ==
    /\ timed_out = NoneOpt
    /\ timed_out' = Some(TimedOut(elapsed_millis, time_limit))
    /\ UNCHANGED <<elapsed_millis, time_limit, call, policy>>

\* the test after a chunk of the body was read (lib.rs 498-505), on the time
\* elapsed by then
TestAfterChunk ==
    /\ timed_out # NoneOpt
    /\ \E d \in {1, u64_max + 1} :
          /\ elapsed_millis + d <= u128_max
          /\ elapsed_millis' = elapsed_millis + d
          /\ timed_out' = Some(TimedOut(elapsed_millis + d, time_limit))
    /\ UNCHANGED <<time_limit, call, policy>>

NextTime ==
    \/ TestAfterHeaders
    \/ TestAfterChunk

SpecTime == InitTime /\ [][NextTime]_vars

(***************************************************************************)
(* Properties.                                                             *)
(***************************************************************************)
InCall == kind # "none"
Resp == Unwrap(result.response)
Sent == Unwrap(wire)

\* a host the local-address policy names: a local IPv4 or IPv6 literal or the
\* domain name localhost
IsLocalHost(host) ==
    \/ host.kind = "Ipv4" /\ is_local_ipv4(host.addr)
    \/ host.kind = "Ipv6" /\ is_local_ipv6(host.addr)
    \/ host.kind = "Domain" /\ host.name = "localhost"

\* C1: one call asks the Transport to send at most max_redirect_count + 1
\* times.  The recursive call passes the redirection counter on unchanged, so
\* this fails.
C1_SendsBounded == InCall => sends <= options.max_redirect_count + 1

\* C2: with allow_local false, an attempt whose URL has a local host fails
\* with LocalNotAllow and nothing is sent for it: the current URL of a call is
\* local only when the call has returned LocalNotAllow, and no request handed
\* to the Transport has a local host.
C2_LocalNeverSent ==
    (InCall /\ ~options.allow_local) =>
        /\ IsLocalHost(url.host) => (pc = "idle" /\ result = Err("LocalNotAllow"))
        /\ IsSome(wire) => ~IsLocalHost(Sent.url.host)
        /\ result = Err("LocalNotAllow") => IsLocalHost(url.host)

\* a redirected attempt to a local host was refused after one send
C2_Witness ==
    /\ result = Err("LocalNotAllow")
    /\ sends = 1
    /\ IsLocalHost(url.host)
    /\ ~IsLocalHost(Sent.url.host)

\* C3: the read that makes the cumulative size exceed
\* max_response_body_size ends the call with TooLarge (also when the time
\* limit is exceeded at the same read), and no response is returned.
C3_TooLarge ==
    [][(pc = "reading" /\ sum_size' > options.max_response_body_size) =>
            /\ sum_size <= options.max_response_body_size
            /\ pc' = "idle"
            /\ result' = Err("TooLarge")
            /\ result'.response = NoneOpt
            /\ response_body' = <<>>]_vars

\* a call failed with TooLarge at the read that took the stream past a limit > 0
C3_Witness ==
    /\ result = Err("TooLarge")
    /\ sum_size = options.max_response_body_size + 1
    /\ options.max_response_body_size > 0

\* C4: the body read so far, and the body of every Response returned, is no
\* longer than max_response_body_size (and is the bytes read).
C4_BodyWithinLimit ==
    /\ pc = "reading" =>
          /\ Len(response_body) <= options.max_response_body_size
          /\ Len(response_body) = sum_size
    /\ result.kind = "Ok" =>
          /\ Len(Resp.body) <= options.max_response_body_size
          /\ Len(Resp.body) = sum_size

\* a stream of exactly max_response_body_size bytes was accepted
C4_Witness ==
    /\ result.kind = "Ok"
    /\ Len(Resp.body) = options.max_response_body_size

\* C5: with max_connection_time > 0 a Response is returned only if the time
\* from the start of the final attempt to the end of the body drain did not
\* exceed max_connection_time.  The read that reports the end of the stream
\* is followed by no time check, so this fails.
C5_ResponseWithinTime ==
    (result.kind = "Ok" /\ options.max_connection_time > 0) =>
        elapsed <= options.max_connection_time

\* C6: with max_redirect_count = 0 no redirect is followed and none is an
\* error: one send at most, never RedirectError (nor a failed Location
\* resolution), and the Response returned is the answer to that send with the
\* status the server gave.
C6_NoFollowAtZero ==
    (InCall /\ options.max_redirect_count = 0) =>
        /\ sends <= 1
        /\ result.error # "RedirectError"
        /\ result.kind # "Panic"
        /\ pc = "reading" => sends = 1
        /\ result.kind = "Ok" =>
              /\ sends = 1
              /\ Resp.status_code = status_code
              /\ Resp.headers["x-attempt"] = <<1>>

\* a 3xx answer with a Location header was returned as the Response
C6_Witness ==
    /\ options.max_redirect_count = 0
    /\ result.kind = "Ok"
    /\ Resp.status_code \div 100 = 3
    /\ "location" \in DOMAIN Resp.headers
    /\ Len(Resp.body) > 0

\* C7: the attempt that follows a 303 is sent with method GET and without a
\* body (status_code is the status of the redirect followed last while the
\* next send is awaited).
C7_SeeOtherIsGet ==
    (pc = "awaiting" /\ sends >= 2 /\ status_code = 303) =>
        /\ Sent.method = "GET"
        /\ Sent.body = NoneOpt
        /\ "content-length" \notin DOMAIN Sent.headers

\* a POST with a body was answered by 303 and followed
C7_Witness ==
    /\ pc = "awaiting"
    /\ sends = 2
    /\ status_code = 303
    /\ IsSome(request)
    /\ Unwrap(request).method = "POST"
    /\ IsSome(Unwrap(request).body)
    /\ Sent.method = "GET"

\* C8: the attempt that follows a 301, 302, 307 or 308 is sent with the
\* method of the request that received the redirect.
C8_MethodKept ==
    [][(pc = "awaiting" /\ pc' = "awaiting" /\ sends' = sends + 1
            /\ status_code' \in {301, 302, 307, 308}) =>
          Unwrap(wire').method = Sent.method]_vars

\* a PUT answered by 307 was followed by a PUT
C8_Witness ==
    /\ pc = "awaiting"
    /\ sends = 2
    /\ status_code = 307
    /\ Sent.method = "PUT"

\* C9: no step of a send_preserved call changes the request, and the first
\* attempt of the call is built from the request as it is.
C9_Preserved ==
    [][kind' = "send_preserved" =>
          /\ request' = request
          /\ (pc' = "awaiting" /\ sends' = 1) =>
                wire' = Some(BuildWire(Unwrap(request).method, Unwrap(request).url,
                                       Unwrap(request).query, Unwrap(request).body,
                                       Unwrap(request).headers))]_vars

\* a send_preserved call that appended query pairs and followed a redirect
\* has returned, and the request still has its own url
C9_Witness ==
    /\ kind = "send_preserved"
    /\ pc = "idle"
    /\ result.kind = "Ok"
    /\ sends >= 2
    /\ IsSome(request)
    /\ IsSome(Unwrap(request).query)
    /\ Unwrap(request).url # url

\* C10: with the default options a chain of redirects with resolvable
\* Locations is followed whatever its statuses among 301, 302, 303, 307, 308,
\* the answer within the limits is read without TooLarge or TimeOut, and the
\* Response returned has the status, the headers and the body of the answer
\* to the last send.
C10_LastResponse ==
    (InCall /\ options = HttpRequestOptions_default) =>
        /\ result.error \notin {"TooLarge", "TimeOut", "LocalNotAllow"}
        /\ result.text = "Unsupported redirection status." =>
              status_code \notin {301, 302, 303, 307, 308}
        /\ (sends >= 1 /\ result.kind = "Err") =>
              result.error \in {"HyperError", "IOError", "RedirectError"}
        /\ result.kind = "Ok" =>
              /\ Resp.status_code = status_code
              /\ status_code \div 100 # 3
              /\ Resp.headers = headers_raw_map
              /\ Resp.headers["x-attempt"] = <<sends>>
              /\ Resp.body = Chunk(sends, sum_size)

\* a GET was answered by five redirects and then by a 200 with a body
C10_Witness ==
    /\ options = HttpRequestOptions_default
    /\ kind = "send"
    /\ method = "GET"
    /\ sends = DEFAULT_MAX_REDIRECT_COUNT + 1
    /\ result.kind = "Ok"
    /\ Resp.status_code = 200
    /\ Resp.headers["x-attempt"] = <<DEFAULT_MAX_REDIRECT_COUNT + 1>>
    /\ Len(Resp.body) = MaxStream

\* the address a.b.c.d lies in the network base/len, for len <= 24
InCidr4(octets, base, len) ==
    LET Value24(o) == (o[1] * 256 + o[2]) * 256 + o[3]
    IN  Value24(octets) \div 2 ^ (24 - len) = Value24(base) \div 2 ^ (24 - len)

\* the IPv4 addresses the policy is to call local
Ipv4Listed(octets) ==
    \/ InCidr4(octets, <<10, 0, 0, 0>>, 8)
    \/ InCidr4(octets, <<172, 16, 0, 0>>, 12)
    \/ InCidr4(octets, <<192, 168, 0, 0>>, 16)
    \/ InCidr4(octets, <<127, 0, 0, 0>>, 8)
    \/ InCidr4(octets, <<169, 254, 0, 0>>, 16)
    \/ InCidr4(octets, <<192, 0, 2, 0>>, 24)
    \/ InCidr4(octets, <<198, 51, 100, 0>>, 24)
    \/ InCidr4(octets, <<203, 0, 113, 0>>, 24)
    \/ octets = <<255, 255, 255, 255>>
    \/ octets = <<0, 0, 0, 0>>

\* C11: is_local_ipv4 answers true exactly for the addresses of 10.0.0.0/8,
\* 172.16.0.0/12, 192.168.0.0/16, 127.0.0.0/8, 169.254.0.0/16, 192.0.2.0/24,
\* 198.51.100.0/24, 203.0.113.0/24, for 255.255.255.255 and for 0.0.0.0, and
\* false for every other address, 8.8.8.8 among them.
C11_LocalIpv4 ==
    (addr.kind = "Ipv4" /\ IsSome(is_local)) =>
        /\ Unwrap(is_local) <=> Ipv4Listed(addr.addr)
        /\ addr.addr = <<8, 8, 8, 8>> => ~Unwrap(is_local)

\* the last address of 172.16.0.0/12 was found local
C11_Witness ==
    /\ addr = HostIpv4(<<172, 31, 255, 255>>)
    /\ is_local = Some(TRUE)

\* the first segment lies in the prefix base/len, for len <= 16
InPrefix6(segments, base, len) ==
    segments[1] \div 2 ^ (16 - len) = base \div 2 ^ (16 - len)

\* the non-multicast IPv6 addresses named local: ::1, ::, fe80::/10, fc00::/7
\* and 2001:db8::/32
Ipv6Listed(segments) ==
    \/ segments = <<0, 0, 0, 0, 0, 0, 0, 1>>
    \/ segments = <<0, 0, 0, 0, 0, 0, 0, 0>>
    \/ InPrefix6(segments, 65152, 10)
    \/ InPrefix6(segments, 64512, 7)
    \/ segments[1] = 8193 /\ segments[2] = 3512

\* the multicast addresses (first byte ff) and their scope field
Ipv6Multicast(segments) == segments[1] \div 256 = 255
Ipv6Scope(segments) == segments[1] % 16

\* C12 as stated: a multicast address is local unless its scope is 14, and a
\* non-multicast address is local exactly when it is ::1, ::, in fe80::/10,
\* in fc00::/7 or in 2001:db8::/32.  The code also finds the site-local
\* prefix fec0::/10 local, so this fails.
C12_LocalIpv6Exact ==
    (addr.kind = "Ipv6" /\ IsSome(is_local)) =>
        (Unwrap(is_local) <=>
            IF Ipv6Multicast(addr.addr)
            THEN Ipv6Scope(addr.addr) # 14
            ELSE Ipv6Listed(addr.addr))

\* C12, amended: a multicast address is local unless its scope is 14, and a
\* non-multicast address is local exactly when it is ::1, ::, in fe80::/10,
\* in fec0::/10 (site-local), in fc00::/7 or in 2001:db8::/32.
C12_LocalIpv6 ==
    (addr.kind = "Ipv6" /\ IsSome(is_local)) =>
        (Unwrap(is_local) <=>
            IF Ipv6Multicast(addr.addr)
            THEN Ipv6Scope(addr.addr) # 14
            ELSE Ipv6Listed(addr.addr) \/ InPrefix6(addr.addr, 65216, 10))

\* a site-local address was found local
C12_Witness ==
    /\ addr = HostIpv6(<<65216, 0, 0, 0, 0, 0, 0, 1>>)
    /\ is_local = Some(TRUE)

\* C13: for a FormURLEncoded body the request handed to the Transport has the
\* Content-Type application/x-www-form-urlencoded and a Content-Length that is
\* the number of bytes of the key=value pairs, percent-encoded and joined with
\* &, that are its body.  The code sets the Content-Type to
\* x-www-form-urlencoded, so this fails.
C13_FormHeaders ==
    (pc = "awaiting" /\ IsSome(body) /\ Unwrap(body).type = "FormURLEncoded") =>
        /\ Sent.body = Some(append_pairs(<<>>, Unwrap(body).map))
        /\ Sent.headers["content-length"] = <<Decimal(Len(Unwrap(Sent.body)))>>
        /\ Sent.headers["content-type"] = <<as_bytes("application/x-www-form-urlencoded")>>

\* the headers the caller supplied, as a sequence of (name, value)
Supplied == IF IsSome(headers) THEN Unwrap(headers) ELSE <<>>

\* the name n is sent with the value v among its values
IsSent(n, v) ==
    /\ to_lowercase(n) \in DOMAIN Sent.headers
    /\ \E j \in 1..Len(Sent.headers[to_lowercase(n)]) : Sent.headers[to_lowercase(n)][j] = v

\* the default User-Agent is sent exactly when the caller supplied none
DefaultUserAgentRule ==
    /\ kind = "send_preserved" => headers = Unwrap(request).headers
    /\ IsSent("User-Agent", as_bytes(DEFAULT_USER_AGENT))
            <=> ~\E i \in 1..Len(Supplied) : to_lowercase(Supplied[i][1]) = "user-agent"

\* C14 as stated: in every attempt the default User-Agent is sent exactly
\* when no supplied header name equals User-Agent ignoring case, and every
\* supplied header is sent.  A supplied Content-Type is replaced by the one of
\* the body, so this fails.
C14_HeadersSentAll ==
    pc = "awaiting" =>
        /\ DefaultUserAgentRule
        /\ \A i \in 1..Len(Supplied) : IsSent(Supplied[i][1], Supplied[i][2])

\* C14, amended: in every attempt the default User-Agent is sent exactly
\* when no supplied header name equals User-Agent ignoring case, and every
\* supplied header is sent, except a supplied Content-Type or Content-Length
\* in an attempt that has a body, which sends the ones of the body.
C14_HeadersSent ==
    pc = "awaiting" =>
        /\ DefaultUserAgentRule
        /\ \A i \in 1..Len(Supplied) :
              IF IsSome(body) /\ to_lowercase(Supplied[i][1]) \in {"content-type", "content-length"}
              THEN /\ Sent.headers["content-type"] = <<as_bytes(Unwrap(body).content_type)>>
                   /\ Sent.headers["content-length"] = <<Decimal(Len(Unwrap(Sent.body)))>>
              ELSE IsSent(Supplied[i][1], Supplied[i][2])

\* the second attempt of a call whose caller supplied a user-agent header
\* went out with that header and without the default
C14_Witness ==
    /\ pc = "awaiting"
    /\ sends = 2
    /\ \E i \in 1..Len(Supplied) : Supplied[i][1] = "user-agent"
    /\ Sent.headers["user-agent"] = <<as_bytes("custom")>>

\* C15: every call returns, also against a server that answers every request
\* with a redirect to follow, because the chain of attempts is bounded by the
\* redirect limit: every redirect that is followed leaves less of the budget
\* to the next attempt, and the redirects followed and the budget left never
\* add up to more than max_redirect_count.  The recursive call passes the
\* redirection counter on unchanged, so this fails.
C15_BudgetConsumed ==
    [][(pc = "awaiting" /\ pc' = "awaiting" /\ sends' = sends + 1) =>
            /\ redirection_counter' < redirection_counter
            /\ sends + redirection_counter' <= options.max_redirect_count]_vars

\* C16: with max_connection_time > 0, an answer whose status and headers
\* arrive later than max_connection_time after the start of the attempt ends
\* the call with TimeOut: nothing of the answer is evaluated (no status, no
\* headers, no redirect), nothing more is sent and no body byte is read.
C16_LateAnswer ==
    [][(pc = "awaiting" /\ options.max_connection_time > 0
            /\ elapsed' > options.max_connection_time) =>
          /\ pc' = "idle"
          /\ result' = Err("TimeOut")
          /\ sends' = sends
          /\ wire' = wire
          /\ status_code' = status_code
          /\ headers_raw_map' = Headers_new
          /\ sum_size' = 0
          /\ response_body' = <<>>]_vars

\* the answer to a redirected attempt came late while redirects could still
\* be followed
C16_Witness ==
    /\ result = Err("TimeOut")
    /\ sends = 2
    /\ sum_size = 0
    /\ redirection_counter > 0
    /\ options.max_connection_time > 0
    /\ elapsed > options.max_connection_time

\* C17: with a redirect budget > 0, an answer with a status in 300..399 that
\* is none of 301, 302, 303, 307, 308 ends the call with RedirectError: the
\* redirect is not followed and the answer is not returned.  The Location is
\* resolved before the status is looked at, and the resolution of a Location
\* without a host may panic, so this fails.
C17_Unsupported ==
    (InCall /\ redirection_counter > 0 /\ status_code \div 100 = 3
            /\ status_code \notin {301, 302, 303, 307, 308}) =>
        /\ pc = "idle"
        /\ result.kind = "Err"
        /\ result.error = "RedirectError"

\* the frame holds the headers of an answer
Answered == headers_raw_map # Headers_new

\* the answer held has a Location header, in whatever letter case
HasLocation == \E name \in DOMAIN headers_raw_map : to_lowercase(name) = "location"

\* C18: with a redirect budget > 0, an answer in time with a status in
\* 300..399 and without a Location header (in whatever letter case) ends the
\* call with RedirectError for the missing Location, whatever the status,
\* and nothing more is sent; that error is given for no answer that has a
\* Location header.
C18_MissingLocation ==
    [][(pc = "awaiting" /\ redirection_counter > 0 /\ Answered'
            /\ status_code' \div 100 = 3) =>
          /\ ~HasLocation' =>
                /\ pc' = "idle"
                /\ result' = ErrText("RedirectError",
                                      "Cannot get the location field in headers.")
                /\ sends' = sends
                /\ wire' = wire
          /\ result'.text = "Cannot get the location field in headers." => ~HasLocation']_vars

\* an answer with an unsupported status and without Location was refused for
\* the missing Location
C18_Witness ==
    /\ result = ErrText("RedirectError", "Cannot get the location field in headers.")
    /\ status_code = 304
    /\ Answered
    /\ ~HasLocation
    /\ sends = 1

\* C19: an attempt whose URL has no host ends the call with Other; no wire
\* request is built for it and the Transport is not asked to send, whatever
\* allow_local is.
C19_NoHost ==
    [][(InCall' /\ url'.host = HostNone) =>
          /\ pc' = "idle"
          /\ result' = ErrText("Other", "A valid HTTP URL needs contains a host.")
          /\ sends' = (IF pc = "idle" THEN 0 ELSE sends)
          /\ wire' = (IF pc = "idle" THEN NoneOpt ELSE wire)]_vars

\* a call for a URL without a host, local addresses not allowed, returned
\* Other and nothing was sent
C19_Witness ==
    /\ InCall
    /\ url.host = HostNone
    /\ ~options.allow_local
    /\ result.error = "Other"
    /\ wire = NoneOpt
    /\ sends = 0

\* C20: no failure is retried: a step of a call asks the Transport to send
\* at most once, an error is the result of the call only once the call has
\* returned, and the step that produces an error returns it and sends
\* nothing.
C20_NoRetry ==
    [][/\ pc # "idle" => sends' \in {sends, sends + 1}
       /\ pc = "idle" => sends' \in {0, 1}
       /\ result'.kind = "Err" =>
             /\ pc' = "idle"
             /\ result'.error \in {"HyperError", "IOError", "RedirectError", "TooLarge",
                                    "TimeOut", "LocalNotAllow", "Other"}
             /\ pc # "idle" => (sends' = sends /\ wire' = wire)
             /\ pc = "idle" => (sends' = 0 /\ wire' = NoneOpt)]_vars

\* the second attempt of a call failed in the Transport and the call
\* returned that error
C20_Witness ==
    /\ pc = "idle"
    /\ result = Err("HyperError")
    /\ sends = 2

\* C21: the time-out test does not wrap around: for every elapsed time in
\* milliseconds of the width of a u128 and every max_connection_time > 0 of
\* the width of a u64 it answers TimeOut exactly when the elapsed time is
\* greater than max_connection_time, also when the elapsed time is beyond the
\* largest u64; with max_connection_time = 0 it never answers TimeOut.
C21_NoWrapAround ==
    IsSome(timed_out) =>
        (Unwrap(timed_out) <=> (time_limit > 0 /\ elapsed_millis > time_limit))

\* an elapsed time beyond the largest u64 whose low 64 bits are not beyond
\* the limit was found timed out
C21_Witness ==
    /\ timed_out = Some(TRUE)
    /\ elapsed_millis > u64_max
    /\ time_limit > 0
    /\ elapsed_millis % (u64_max + 1) <= time_limit

\* the current attempt is a GET without a body
GetWithoutBody == method = "GET" /\ body = NoneOpt

\* C22: a further attempt is one that is sent or that the host check
\* refuses.  The attempt that follows a 303 is a GET without a body, and every
\* attempt that follows an attempt that was a GET without a body is one too,
\* whatever the status of the redirect between them: after a 303 the method
\* and body of the request are not restored in the rest of the chain.
C22_GetForGood ==
    [][(pc = "awaiting" /\ (status_code' = 303 \/ GetWithoutBody)
            /\ (sends' = sends + 1 \/ result'.error \in {"LocalNotAllow", "Other"})) =>
          /\ GetWithoutBody'
          /\ sends' = sends + 1 =>
                /\ Unwrap(wire').method = "GET"
                /\ Unwrap(wire').body = NoneOpt
                /\ "content-length" \notin DOMAIN Unwrap(wire').headers]_vars

\* a POST with a body went through a 303 and then through a 307, and the
\* third attempt was sent as a GET without a body
C22_Witness ==
    /\ pc = "awaiting"
    /\ sends = 3
    /\ status_code = 307
    /\ IsSome(request)
    /\ Unwrap(request).method = "POST"
    /\ IsSome(Unwrap(request).body)
    /\ Sent.method = "GET"
    /\ Sent.body = NoneOpt

\* the URL u followed by the pairs of the query q, each as key=value, joined
\* to what is there and to each other with &
WithPairs(u, q) ==
    IF ~IsSome(q) THEN u
    ELSE LET pairs == append_pairs(<<>>, Unwrap(q))
             old == IF IsSome(u.query) THEN Unwrap(u.query) ELSE <<>>
         IN  [u EXCEPT !.query = Some(IF old = <<>> \/ pairs = <<>>
                                      THEN old \o pairs
                                      ELSE old \o <<"&">> \o pairs)]

\* C23: the query pairs of the request are appended in every attempt: the
\* URL sent first is the URL of the request followed by the pairs, and the
\* URL sent on a redirected attempt is a URL resolved from a Location, with
\* the query it carries, followed by the pairs.
C23_QueryEveryAttempt ==
    [][/\ (pc = "idle" /\ pc' = "awaiting") =>
             Unwrap(wire').url = WithPairs(Unwrap(request).url, Unwrap(request).query)
       /\ (pc = "awaiting" /\ pc' = "awaiting" /\ sends' = sends + 1) =>
             /\ query' = query
             /\ \E l \in Locations :
                   /\ ResolveLocation(url, l).outcome = "Ok"
                   /\ Unwrap(wire').url = WithPairs(ResolveLocation(url, l).url, query)]_vars

\* a request with the query pair k = "x y" was redirected to a Location that
\* carries k=x+y, and the URL sent has the pair twice
C23_Witness ==
    /\ pc = "awaiting"
    /\ sends = 2
    /\ query = Some(<< <<(<<"k">>), (<<"x", " ", "y">>)>> >>)
    /\ Sent.url.path = "/p"
    /\ Sent.url.query = Some(<<"k", "=", "x", "+", "y", "&", "k", "=", "x", "+", "y">>)

\* C24: the time budget is per attempt.  The clock of an attempt starts at
\* its own send, whatever time the attempts before took; the test after the
\* headers and the test after each chunk of the body both answer TimeOut
\* exactly when the time since that start is beyond max_connection_time, and
\* the time of an attempt only grows, so the wait for the headers counts in
\* the tests of the read loop.
C24_PerAttempt ==
    [][/\ (pc' = "awaiting" /\ (pc = "idle" \/ sends' = sends + 1)) => elapsed' = 0
       /\ pc = "awaiting" =>
             (result' = Err("TimeOut")
                <=> (options.max_connection_time > 0
                        /\ elapsed' > options.max_connection_time))
       /\ pc = "reading" => elapsed' >= elapsed
       /\ (pc = "reading" /\ sum_size' > sum_size
                /\ sum_size' <= options.max_response_body_size) =>
             (result' = Err("TimeOut")
                <=> (options.max_connection_time > 0
                        /\ elapsed' > options.max_connection_time))]_vars

\* the second attempt of a call with a limit of 1 ms got its headers within
\* the limit and timed out at its first chunk, 2 ms after its own start
C24_Witness ==
    /\ result = Err("TimeOut")
    /\ sends = 2
    /\ sum_size = 1
    /\ options.max_connection_time = 1
    /\ elapsed = 2

=============================================================================
